---- MODULE Spec2Model ----
(***************************************************************************)
(* RobustCountdown (src/src/robustCountdown.js): the countdown engine's    *)
(* state machine.  One instance, the host clock, the host's interval       *)
(* registry and the sinks the instance renders to.                         *)
(*                                                                         *)
(* Timestamps are integers in milliseconds since the host epoch            *)
(* (1970-01-01T00:00:00Z).  A JavaScript null is modelled by the falsy     *)
(* value of the property's type (0 for a number, "" for a string) wherever *)
(* the code reads the property only through a truthiness test; a property  *)
(* that was never assigned (undefined) is named in the set unset.          *)
(***************************************************************************)
EXTENDS Integers, Sequences, FiniteSets, TLC

\* ------------------------------------------------------------------ bounds
\* The model observes the host clock every ClockStep milliseconds (12 hours,
\* 30 minutes and 30 seconds, so that no unit of the remaining time stays 0),
\* MaxSteps times after the construction.
ClockStep == 45030000
MaxSteps == 3
\* resume() may push the target forward without limit; the model stops at
\* MaxTargetSteps clock steps after the host epoch.
MaxTargetSteps == 8
\* getTimezoneOffset() of the host, in milliseconds (UTC minus local time).
HostTimezoneOffset == 3600000
\* The step of a clock that drifts off the whole second (2 hours, 1 minute
\* and 1.001 seconds).
DriftStep == 7261001

\* --------------------------------------------------------- units of time
SecondMs == 1000
MinuteMs == 1000 * 60
HourMs == 1000 * 60 * 60
DayMs == 1000 * 60 * 60 * 24

Max(a, b) == IF a >= b THEN a ELSE b
Min(a, b) == IF a <= b THEN a ELSE b

\* The clock at construction: 1970-01-02T01:01:00Z.
Epoch == 2 * ClockStep
\* The values the host clock takes in the model.
ClockValues == { Epoch + k * ClockStep : k \in 0..MaxSteps }
MaxTimestamp == MaxTargetSteps * ClockStep

\* ------------------------------------------------------------ host: Date
\* Date.UTC(y, m, d, h, min, s) for 1970 <= y <= 2099 and 0 <= m <= 11; the
\* day, hour, minute and second fields overflow linearly as in the host.
IsLeap(y) == y % 4 = 0
DaysBeforeYear(y) == (y - 1970) * 365 + ((y - 1969) \div 4)
DaysBeforeMonth(y, m) ==
    LET cum == <<0, 31, 59, 90, 120, 151, 181, 212, 243, 273, 304, 334>>
    IN  cum[m + 1] + (IF IsLeap(y) /\ m >= 2 THEN 1 ELSE 0)
DateUTC(y, m, d, h, min, s) ==
    (DaysBeforeYear(y) + DaysBeforeMonth(y, m) + (d - 1)) * DayMs
        + h * HourMs + min * MinuteMs + s * SecondMs
\* new Date(y, m, d, h, min, s).getTime(): the fields are local civil time.
DateLocal(y, m, d, h, min, s) == DateUTC(y, m, d, h, min, s) + HostTimezoneOffset
\* new Date().getFullYear() at clock t (local time), for t within 1970.
FullYear(t) == 1970 + (((t - HostTimezoneOffset) \div DayMs) \div 365)
\* new Date(str).getTime() for the date strings the model configures (ISO
\* strings with a Z suffix, so the host's time zone plays no part).
DateParse(str) ==
    CASE str = "1970-01-01T12:30:30Z" -> DateUTC(1970, 0, 1, 12, 30, 30)
      [] str = "1970-01-02T13:31:30Z" -> DateUTC(1970, 0, 2, 13, 31, 30)
      [] str = "1970-01-03T02:02:00Z" -> DateUTC(1970, 0, 3, 2, 2, 0)

\* ------------------------------------------------------- host: strings
\* n.toString() for an integer n >= 0, as the sequence of its decimal digits.
RECURSIVE NumberToString(_)
NumberToString(n) ==
    IF n < 10 THEN <<n>> ELSE NumberToString(n \div 10) \o <<n % 10>>
\* str.padStart(len, "0")
RECURSIVE PadStart(_, _)
PadStart(str, len) == IF Len(str) >= len THEN str ELSE PadStart(<<0>> \o str, len)

\* --------------------------------------------------------- configuration
NULL == "null"
\* A callback that returns without calling back into the instance, and the
\* callbacks that call instance.restart() and instance.stop() before returning.
Fn == "function"
FnRestart == "function: instance.restart()"
FnStop == "function: instance.stop()"

\* The defaults of the constructor at clock t.
Defaults(t) ==
    [ year |-> FullYear(t), month |-> 1, day |-> 1,
      hours |-> 0, minutes |-> 0, seconds |-> 0, enableUTC |-> FALSE,
      targetTime |-> "",
      timer |-> [ duration |-> 0, disableOnPause |-> TRUE ],
      zeroPad |-> TRUE,
      on |-> [ update |-> NULL, finish |-> NULL ] ]

\* The object spread {...base, ...over} on one property k.
Spread(base, over, k) == IF k \in DOMAIN over THEN over[k] ELSE base[k]
\* over.timer || {} and over.on || {}
Nested(over, k) == IF k \in DOMAIN over THEN over[k] ELSE << >>

\* The deep merge of the constructor and of update().
MergeOptions(base, over) ==
    [ year |-> Spread(base, over, "year"),
      month |-> Spread(base, over, "month"),
      day |-> Spread(base, over, "day"),
      hours |-> Spread(base, over, "hours"),
      minutes |-> Spread(base, over, "minutes"),
      seconds |-> Spread(base, over, "seconds"),
      enableUTC |-> Spread(base, over, "enableUTC"),
      targetTime |-> Spread(base, over, "targetTime"),
      timer |-> [ duration |-> Spread(base.timer, Nested(over, "timer"), "duration"),
                  disableOnPause |->
                      Spread(base.timer, Nested(over, "timer"), "disableOnPause") ],
      zeroPad |-> Spread(base, over, "zeroPad"),
      on |-> [ update |-> Spread(base.on, Nested(over, "on"), "update"),
               finish |-> Spread(base.on, Nested(over, "on"), "finish") ] ]

Callbacks == [ update |-> Fn, finish |-> Fn ]

\* The options objects handed to the constructor.
UserOptions ==
    { [ timer |-> [ duration |-> ClockStep ], on |-> Callbacks ],
      [ timer |-> [ duration |-> 2 * ClockStep, disableOnPause |-> FALSE ],
        on |-> Callbacks ],
      [ timer |-> [ duration |-> -1000 ], on |-> Callbacks ],
      [ targetTime |-> "1970-01-02T13:31:30Z", on |-> Callbacks ],
      [ day |-> 3, hours |-> 2, minutes |-> 2, enableUTC |-> TRUE,
        on |-> [ finish |-> Fn ] ],
      [ day |-> 2, seconds |-> 1, zeroPad |-> FALSE ] }

\* Options objects whose callbacks call back into the instance.  The callback
\* that restarts is configured with a positive relative duration only: with a
\* target that restart() leaves in the past, restart() -> start() -> tick() ->
\* on.finish -> restart() would not return.
ReentrantOptions ==
    { [ timer |-> [ duration |-> ClockStep ],
        on |-> [ update |-> Fn, finish |-> FnRestart ] ],
      [ timer |-> [ duration |-> ClockStep, disableOnPause |-> FALSE ],
        on |-> [ update |-> FnStop, finish |-> FnRestart ] ],
      [ targetTime |-> "1970-01-02T13:31:30Z",
        on |-> [ update |-> Fn, finish |-> FnStop ] ] }

\* Options objects with granular dates from before the construction to two
\* days after it.
UnitsOptions ==
    { [ day |-> d, hours |-> h, minutes |-> mi, seconds |-> sec,
        enableUTC |-> TRUE, on |-> Callbacks ] :
        d \in 2..3, h \in {0, 1, 23}, mi \in {0, 59}, sec \in {0, 1, 59} }

\* The partial options handed to update().
PartialOptions ==
    { [ timer |-> [ duration |-> 2 * ClockStep ] ],
      [ zeroPad |-> FALSE ] }

\* ------------------------------------------------------------- instance
\* The properties the constructor assigns after its early return.
Properties ==
    { "options", "intervalId", "isPaused", "pauseStart",
      "targetTimestamp", "startTimestamp", "totalDuration" }

\* A machine value m is the instance together with what its methods touch:
\*   unset            the properties never assigned (undefined)
\*   options .. totalDuration   the instance's properties (intervalId 0: null)
\*   live             the interval ids registered with the host and not cleared
\*   display          the text of the sinks (innerText of the four slots)
\*   events           what the running operation rendered and called back
\*   threw            the running operation raised a TypeError
NoDisplay == [ days |-> << >>, hours |-> << >>, minutes |-> << >>, seconds |-> << >> ]

\* The truthiness of this.intervalId and of this.isPaused.
HasInterval(m) == "intervalId" \notin m.unset /\ m.intervalId # 0
Paused(m) == "isPaused" \notin m.unset /\ m.isPaused

\* setInterval returns an id no live interval has.
NewIntervalId(live) ==
    CHOOSE i \in 1..(Cardinality(live) + 1) :
        i \notin live /\ \A j \in 1..(i - 1) : j \in live

\* format(n)
format(m, n) ==
    IF m.options.zeroPad = FALSE THEN NumberToString(n)
    ELSE PadStart(NumberToString(n), 2)

\* A ratio num/den with den > 0, as tick() computes it in floating point.
Ratio(num, den) == [ num |-> num, den |-> den ]
InUnit(r) == r.num >= 0 /\ r.num <= r.den
\* a <= b for ratios; ratios over the same denominator compare by numerator.
RatioLeq(a, b) ==
    IF a.den = b.den THEN a.num <= b.num
    ELSE IF InUnit(a) /\ b.num = b.den THEN TRUE
    ELSE IF a.num = a.den /\ InUnit(b) THEN b.num = b.den
    ELSE a.num * b.den <= b.num * a.den

timeLeftAt(m, now) == Max(0, m.targetTimestamp - now)
Days(timeLeft) == timeLeft \div DayMs
Hours(timeLeft) == (timeLeft % DayMs) \div HourMs
\* The minutes as they would be had the remainder been taken of the day.
Minutes_ofDay(timeLeft) == (timeLeft % DayMs) \div MinuteMs
Minutes(timeLeft) == (timeLeft % HourMs) \div MinuteMs
Seconds(timeLeft) == (timeLeft % MinuteMs) \div SecondMs

globalProgress(m, now) ==
    IF m.totalDuration > 0
    THEN Ratio(Min(m.totalDuration, Max(0, now - m.startTimestamp)), m.totalDuration)
    ELSE Ratio(1, 1)

progressObject(m, now) ==
    LET timeLeft == timeLeftAt(m, now)
    IN  [ total |-> globalProgress(m, now),
          days |-> IF m.totalDuration > 0
                   THEN Ratio(Days(timeLeft) * DayMs, m.totalDuration)
                   ELSE Ratio(0, 1),
          hours |-> Ratio(Hours(timeLeft), 24),
          minutes |-> Ratio(Minutes(timeLeft), 60),
          seconds |-> Ratio(Seconds(timeLeft), 60) ]

Event(kind, m, now) ==
    LET timeLeft == timeLeftAt(m, now)
    IN  [ ev |-> kind, timeLeft |-> timeLeft, progress |-> progressObject(m, now),
          units |-> [ days |-> Days(timeLeft), hours |-> Hours(timeLeft),
                      minutes |-> Minutes(timeLeft), seconds |-> Seconds(timeLeft) ],
          \* what the callback finds in the instance it is handed
          registered |-> HasInterval(m), isPaused |-> Paused(m) ]

stop(m) ==
    LET cleared ==
            IF HasInterval(m)
            THEN [m EXCEPT !.live = @ \ {m.intervalId}, !.intervalId = 0]
            ELSE m
    IN  [cleared EXCEPT !.isPaused = TRUE, !.unset = @ \ {"isPaused"}]

\* The target of the granular fields.
granularTarget(opts) ==
    LET y == opts.year
        mo == (IF opts.month # 0 THEN opts.month ELSE 1) - 1
        d == IF opts.day # 0 THEN opts.day ELSE 1
        h == opts.hours
        min == opts.minutes
        s == opts.seconds
    IN  IF opts.enableUTC THEN DateUTC(y, mo, d, h, min, s)
        ELSE DateLocal(y, mo, d, h, min, s)

\* The log entry of a target computation.
computed(m, now) == [m EXCEPT !.events = Append(@, Event("compute", m, now))]

\* calculateTarget() as it would be had it tried the date string first.
calculateTarget_targetTimeFirst(m, now) ==
    LET begun == [m EXCEPT !.startTimestamp = now, !.unset = @ \ {"startTimestamp"}]
    IN  IF "options" \in m.unset
        THEN [begun EXCEPT !.threw = TRUE]
        ELSE LET opts == m.options
             IN  IF opts.targetTime = "" /\ opts.timer.duration # 0
                 THEN computed(
                        [begun EXCEPT !.targetTimestamp = now + opts.timer.duration,
                                      !.totalDuration = opts.timer.duration,
                                      !.unset = @ \ {"targetTimestamp", "totalDuration"}],
                        now)
                 ELSE LET target == IF opts.targetTime # ""
                                    THEN DateParse(opts.targetTime)
                                    ELSE granularTarget(opts)
                      IN  computed(
                            [begun EXCEPT !.targetTimestamp = target,
                                          !.totalDuration = Max(0, target - now),
                                          !.unset = @ \ {"targetTimestamp", "totalDuration"}],
                            now)

calculateTarget(m, now) ==
    LET begun == [m EXCEPT !.startTimestamp = now, !.unset = @ \ {"startTimestamp"}]
    IN  IF "options" \in m.unset
        THEN [begun EXCEPT !.threw = TRUE]
        ELSE LET opts == m.options
             IN  IF opts.timer.duration # 0
                 THEN computed(
                        [begun EXCEPT !.targetTimestamp = now + opts.timer.duration,
                                      !.totalDuration = opts.timer.duration,
                                      !.unset = @ \ {"targetTimestamp", "totalDuration"}],
                        now)
                 ELSE LET target == IF opts.targetTime # ""
                                    THEN DateParse(opts.targetTime)
                                    ELSE granularTarget(opts)
                      IN  computed(
                            [begun EXCEPT !.targetTimestamp = target,
                                          !.totalDuration = Max(0, target - now),
                                          !.unset = @ \ {"targetTimestamp", "totalDuration"}],
                            now)

\* The DOM updates of tick(): every element's four slots receive the text.
render(m, now) ==
    LET timeLeft == timeLeftAt(m, now)
    IN  [m EXCEPT !.display = [ days |-> format(m, Days(timeLeft)),
                                hours |-> format(m, Hours(timeLeft)),
                                minutes |-> format(m, Minutes(timeLeft)),
                                seconds |-> format(m, Seconds(timeLeft)) ],
                  !.events = Append(@, Event("render", m, now))]

\* The first statement of start(): isPaused = false.
unpaused(m) == [m EXCEPT !.isPaused = FALSE, !.unset = @ \ {"isPaused"}]

\* if (this.intervalId) clearInterval(this.intervalId)
cleared(m) ==
    IF HasInterval(m) THEN [m EXCEPT !.live = @ \ {m.intervalId}] ELSE m

\* this.intervalId = setInterval(() => this.tick(), 1000)
registered(m) ==
    [m EXCEPT !.intervalId = NewIntervalId(m.live),
              !.live = @ \cup {NewIntervalId(m.live)},
              !.unset = @ \ {"intervalId"}]

\* What a callback fn does with the instance it is handed when it is called
\* by the tick() of a restart() that a callback called.  There a callback
\* that calls restart() is called again by the tick() of its own restart(),
\* at the same clock value and so without end: the call stack overflows.
nestedCallback(fn, m, now) ==
    IF fn = FnRestart THEN [m EXCEPT !.threw = TRUE]
    ELSE IF fn = FnStop THEN stop(m)
    ELSE m

\* The callbacks, the finish check, tick(), start() and restart() as run by a
\* restart() that a callback called.
nestedCallFinish(m, now) ==
    nestedCallback(m.options.on.finish,
                   [m EXCEPT !.events = Append(@, Event("finish", m, now))], now)

nestedCallUpdate(m, now) ==
    nestedCallback(m.options.on.update,
                   [m EXCEPT !.events = Append(@, Event("update", m, now))], now)

nestedUpdateCheck(m, now) ==
    IF m.options.on.update # NULL THEN nestedCallUpdate(m, now) ELSE m

nestedFinishBranch(m, now) ==
    IF m.options.on.finish # NULL THEN nestedCallFinish(m, now) ELSE m

nestedFinishCheck(m, now) ==
    IF timeLeftAt(m, now) <= 0 THEN nestedFinishBranch(stop(m), now) ELSE m

nestedTick(m, now) ==
    IF Paused(m) THEN m
    ELSE nestedFinishCheck(nestedUpdateCheck(render(m, now), now), now)

nestedStart(m, now) == registered(cleared(nestedTick(unpaused(m), now)))

nestedStarted(m, now) == IF m.threw THEN m ELSE nestedStart(m, now)

nestedRestart(m, now) == nestedStarted(calculateTarget(stop(m), now), now)

\* What a callback fn does with the instance it is handed.
callback(fn, m, now) ==
    IF fn = FnRestart THEN nestedRestart(m, now)
    ELSE IF fn = FnStop THEN stop(m)
    ELSE m

\* on.finish(instance)
callFinish(m, now) ==
    callback(m.options.on.finish,
             [m EXCEPT !.events = Append(@, Event("finish", m, now))], now)

\* on.update(instance, progressObject, timeLeft, individualTimeData)
callUpdate(m, now) ==
    callback(m.options.on.update,
             [m EXCEPT !.events = Append(@, Event("update", m, now))], now)

\* if (typeof this.options.on.update === "function") ...
updateCheck(m, now) ==
    IF m.options.on.update # NULL THEN callUpdate(m, now) ELSE m

\* The body of the finish check, after its stop().
finishBranch(m, now) ==
    IF m.options.on.finish # NULL THEN callFinish(m, now) ELSE m

\* The finish check as it would be had it compared with < instead of <=.
finishCheck_strict(m, now) ==
    IF timeLeftAt(m, now) < 0 THEN finishBranch(stop(m), now) ELSE m

finishCheck(m, now) ==
    IF timeLeftAt(m, now) <= 0 THEN finishBranch(stop(m), now) ELSE m

\* tick() as it would be without the isPaused guard of line 154.
tick_unguarded(m, now) ==
    finishCheck(updateCheck(render(m, now), now), now)

tick(m, now) ==
    IF Paused(m) THEN m
    ELSE finishCheck(updateCheck(render(m, now), now), now)

\* start() as it would be without the clearInterval of line 219.
start_noClear(m, now) == registered(tick(unpaused(m), now))

start(m, now) == registered(cleared(tick(unpaused(m), now)))

\* The rest of a method after calculateTarget(), which a TypeError skips.
started(m, now) == IF m.threw THEN m ELSE start(m, now)

init(m, now) == start(calculateTarget(m, now), now)

pause(m, now) ==
    [m EXCEPT !.isPaused = TRUE, !.pauseStart = now,
              !.unset = @ \ {"isPaused", "pauseStart"}]

\* The condition under which resume() shifts the timestamps.
freezes(opts) == opts.timer.duration # 0 /\ opts.timer.disableOnPause

\* resume() as it would be had it forgotten to shift startTimestamp.
resume_targetOnly(m, now) ==
    IF ~Paused(m) THEN m
    ELSE IF "options" \in m.unset THEN [m EXCEPT !.threw = TRUE]
    ELSE LET pauseDuration == now - m.pauseStart
             shifted == IF freezes(m.options)
                        THEN [m EXCEPT !.targetTimestamp = @ + pauseDuration]
                        ELSE m
         IN  start(shifted, now)

\* resume() as it would be had it not read timer.disableOnPause.
resume_flagIgnored(m, now) ==
    IF ~Paused(m) THEN m
    ELSE IF "options" \in m.unset THEN [m EXCEPT !.threw = TRUE]
    ELSE LET pauseDuration == now - m.pauseStart
             shifted == IF m.options.timer.duration # 0
                        THEN [m EXCEPT !.targetTimestamp = @ + pauseDuration,
                                       !.startTimestamp = @ + pauseDuration]
                        ELSE m
         IN  start(shifted, now)

\* resume() as it would be had it shifted startTimestamp alone.
resume_startOnly(m, now) ==
    IF ~Paused(m) THEN m
    ELSE IF "options" \in m.unset THEN [m EXCEPT !.threw = TRUE]
    ELSE LET pauseDuration == now - m.pauseStart
             shifted == IF freezes(m.options)
                        THEN [m EXCEPT !.startTimestamp = @ + pauseDuration]
                        ELSE m
         IN  start(shifted, now)

\* resume() as it would be without its early return.
resume_unguarded(m, now) ==
    IF "options" \in m.unset THEN [m EXCEPT !.threw = TRUE]
    ELSE LET pauseDuration == now - m.pauseStart
             shifted == IF freezes(m.options)
                        THEN [m EXCEPT !.targetTimestamp = @ + pauseDuration,
                                       !.startTimestamp = @ + pauseDuration]
                        ELSE m
         IN  start(shifted, now)

resume(m, now) ==
    IF ~Paused(m) THEN m
    ELSE IF "options" \in m.unset THEN [m EXCEPT !.threw = TRUE]
    ELSE LET pauseDuration == now - m.pauseStart
             shifted == IF freezes(m.options)
                        THEN [m EXCEPT !.targetTimestamp = @ + pauseDuration,
                                       !.startTimestamp = @ + pauseDuration]
                        ELSE m
         IN  start(shifted, now)

\* restart() as it would be had it kept the target it had.
restart_targetKept(m, now) ==
    IF "options" \in m.unset THEN [stop(m) EXCEPT !.threw = TRUE]
    ELSE start(computed(stop(m), now), now)

restart(m, now) == started(calculateTarget(stop(m), now), now)

update(m, now, newOptions) ==
    IF "options" \in m.unset THEN [m EXCEPT !.threw = TRUE]
    ELSE restart([m EXCEPT !.options = MergeOptions(m.options, newOptions)], now)

\* new RobustCountdown(selector, options) when the selector resolves to n elements.
construct(n, userOptions, now) ==
    LET blank == [ unset |-> Properties,
                   options |-> Defaults(now),
                   intervalId |-> 0, isPaused |-> FALSE, pauseStart |-> 0,
                   targetTimestamp |-> 0, startTimestamp |-> 0, totalDuration |-> 0,
                   live |-> {}, display |-> NoDisplay, events |-> << >>,
                   threw |-> FALSE ]
    IN  IF n = 0 THEN blank
        ELSE init([blank EXCEPT !.options = MergeOptions(Defaults(now), userOptions),
                                !.unset = {}], now)

\* ---------------------------------------------------------------- state
VARIABLES
    elements,         \* the number of elements the selector resolved to
    unset,            \* the instance's properties that were never assigned
    options, intervalId, isPaused, pauseStart,
    targetTimestamp, startTimestamp, totalDuration,
    live,             \* the host's live interval ids
    display,          \* the text of the sinks
    now,              \* the host clock
    \* what the last operation did
    lastOp,           \* its name
    events,           \* what it rendered and called back, in order
    threw,            \* whether it raised a TypeError to its caller
    prePaused,        \* whether the instance was paused when it was called
    \* since the last target computation
    completed,        \* a processed tick has observed timeLeft <= 0
    finishFired,      \* on.finish has been invoked
    lastTotal,        \* <<progress.total>> of the last processed tick, or << >>
    \* the pause in progress
    snap

instance == <<unset, options, intervalId, isPaused, pauseStart,
              targetTimestamp, startTimestamp, totalDuration>>
vars == <<elements, unset, options, intervalId, isPaused, pauseStart,
          targetTimestamp, startTimestamp, totalDuration, live, display, now,
          lastOp, events, threw, prePaused, completed, finishFired, lastTotal, snap>>

\* The machine value of the current state, before an operation runs.
self ==
    [ unset |-> unset, options |-> options, intervalId |-> intervalId,
      isPaused |-> isPaused, pauseStart |-> pauseStart,
      targetTimestamp |-> targetTimestamp, startTimestamp |-> startTimestamp,
      totalDuration |-> totalDuration, live |-> live, display |-> display,
      events |-> << >>, threw |-> FALSE ]

\* The events of one kind in a log.
EventsOf(log, kind) == SelectSeq(log, LAMBDA e : e.ev = kind)
Processed(log) == EventsOf(log, "render") # << >>
\* The values the first processed tick of a log reported (an operation runs
\* one tick at most unless a callback restarts the instance).
Reported(log) == EventsOf(log, "render")[1]
\* Whether the operation of a log computed the target anew, and the part of
\* the log after its last target computation.
Recomputed(log) == EventsOf(log, "compute") # << >>
RECURSIVE SinceCompute(_)
SinceCompute(log) ==
    IF ~Recomputed(log) THEN log
    ELSE IF Head(log).ev = "compute" /\ ~Recomputed(Tail(log)) THEN Tail(log)
    ELSE SinceCompute(Tail(log))
\* The last processed tick of a log.
LastReported(log) ==
    LET ticks == EventsOf(log, "render") IN ticks[Len(ticks)]

NoSnap ==
    [ state |-> "none", t |-> 0, target |-> 0, start |-> 0, timeLeft |-> 0,
      running |-> FALSE, repeated |-> FALSE ]

\* The state after an operation op that took the machine to m.
Commit(op, m) ==
    /\ unset' = m.unset
    /\ options' = m.options
    /\ intervalId' = m.intervalId
    /\ isPaused' = m.isPaused
    /\ pauseStart' = m.pauseStart
    /\ targetTimestamp' = m.targetTimestamp
    /\ startTimestamp' = m.startTimestamp
    /\ totalDuration' = m.totalDuration
    /\ live' = m.live
    /\ display' = m.display
    /\ lastOp' = op
    /\ events' = m.events
    /\ threw' = m.threw
    /\ prePaused' = Paused(self)
    /\ LET recomputed == Recomputed(m.events)
           since == SinceCompute(m.events)
       IN  /\ completed' = ( (~recomputed /\ completed)
                             \/ (Processed(since) /\ LastReported(since).timeLeft <= 0) )
           /\ finishFired' = ( (~recomputed /\ finishFired)
                               \/ EventsOf(since, "finish") # << >> )
           /\ lastTotal' = IF Processed(since)
                           THEN << LastReported(since).progress.total >>
                           ELSE IF recomputed THEN << >>
                           ELSE lastTotal
    /\ UNCHANGED elements

\* ---------------------------------------------------------------- Init
\* The state right after new RobustCountdown(selector, userOptions) at Epoch,
\* the selector resolving to n elements.
Constructed(n, userOptions) ==
    LET m == construct(n, userOptions, Epoch)
        since == SinceCompute(m.events)
    IN  /\ elements = n
        /\ now = Epoch
        /\ unset = m.unset
        /\ options = m.options
        /\ intervalId = m.intervalId
        /\ isPaused = m.isPaused
        /\ pauseStart = m.pauseStart
        /\ targetTimestamp = m.targetTimestamp
        /\ startTimestamp = m.startTimestamp
        /\ totalDuration = m.totalDuration
        /\ live = m.live
        /\ display = m.display
        /\ lastOp = "construct"
        /\ events = m.events
        /\ threw = m.threw
        /\ prePaused = FALSE
        /\ completed = (Processed(since) /\ LastReported(since).timeLeft <= 0)
        /\ finishFired = (EventsOf(since, "finish") # << >>)
        /\ lastTotal = IF Processed(since)
                       THEN << LastReported(since).progress.total >>
                       ELSE << >>
        /\ snap = NoSnap

Init ==
    \E n \in {0, 1} : \E userOptions \in UserOptions :
        Constructed(n, userOptions)

\* -------------------------------------------------------------- actions
\* The host clock moves forward.
Advance ==
    /\ now + ClockStep \in ClockValues
    /\ now' = now + ClockStep
    /\ lastOp' = "advance"
    /\ events' = << >>
    /\ threw' = FALSE
    /\ prePaused' = Paused(self)
    /\ snap' = IF snap.state = "resumed" THEN NoSnap ELSE snap
    /\ UNCHANGED <<elements, instance, live, display,
                   completed, finishFired, lastTotal>>

\* The host fires a live interval: its callback runs tick().
Tick ==
    /\ live # {}
    /\ \E m \in {tick(self, now)} : Commit("tick", m)
    /\ snap' = IF snap.state = "resumed" THEN NoSnap ELSE snap
    /\ UNCHANGED now

Pause ==
    /\ \E m \in {pause(self, now)} : Commit("pause", m)
    /\ snap' = IF snap.state = "paused"
               THEN [snap EXCEPT !.repeated = TRUE]
               ELSE [ state |-> "paused", t |-> now,
                      target |-> targetTimestamp, start |-> startTimestamp,
                      timeLeft |-> timeLeftAt(self, now),
                      running |-> ~Paused(self), repeated |-> FALSE ]
    /\ UNCHANGED now

Resume ==
    /\ \E m \in {resume(self, now)} :
           /\ m.targetTimestamp <= MaxTimestamp
           /\ Commit("resume", m)
    /\ snap' = IF snap.state = "paused" THEN [snap EXCEPT !.state = "resumed"]
               ELSE NoSnap
    /\ UNCHANGED now

Stop ==
    /\ \E m \in {stop(self)} : Commit("stop", m)
    /\ snap' = NoSnap
    /\ UNCHANGED now

Restart ==
    /\ \E m \in {restart(self, now)} : Commit("restart", m)
    /\ snap' = NoSnap
    /\ UNCHANGED now

Update ==
    \E newOptions \in PartialOptions :
        /\ \E m \in {update(self, now, newOptions)} : Commit("update", m)
        /\ snap' = NoSnap
        /\ UNCHANGED now

Next == Advance \/ Tick \/ Pause \/ Resume \/ Stop \/ Restart \/ Update

Spec == Init /\ [][Next]_vars

\* The countdown to a granular date, left alone: the scheduler ticks while
\* the clock drifts off the whole second.
InitUnits == \E userOptions \in UnitsOptions : Constructed(1, userOptions)

Drift ==
    /\ now + DriftStep <= Epoch + MaxSteps * ClockStep
    /\ now' = now + DriftStep
    /\ lastOp' = "advance"
    /\ events' = << >>
    /\ threw' = FALSE
    /\ prePaused' = Paused(self)
    /\ UNCHANGED <<elements, instance, live, display,
                   completed, finishFired, lastTotal, snap>>

NextUnits == Drift \/ Tick

SpecUnits == InitUnits /\ [][NextUnits]_vars

\* A live interval has a tick to deliver: the last step was not a tick.  It
\* implies ENABLED <<Tick>>_vars (the guard of Tick holds and the step changes
\* lastOp).
TickDue == live # {} /\ lastOp # "tick"

\* The clock keeps advancing and setInterval keeps delivering ticks for as
\* long as an interval is live: weak fairness of Advance and of Tick, the
\* latter with TickDue for its enabling condition, which asks no more of the
\* scheduler than WF_vars(Tick) does.
SpecFair ==
    /\ Spec
    /\ WF_vars(Advance)
    /\ ([]<>~TickDue \/ []<><<Tick>>_vars)

\* The countdown with callbacks that call back into the instance.
InitReentrant ==
    \E userOptions \in ReentrantOptions \cup UserOptions :
        Constructed(1, userOptions)

SpecReentrant == InitReentrant /\ [][Next]_vars

\* ---------------------------------------------------------------- claims
Recomputes == { "restart", "update" }
\* The configuration freezes the countdown during a pause.
FreezeConfigured == options.timer.duration # 0 /\ options.timer.disableOnPause
\* resume() has just returned from a pause() that no other call followed.
ResumedFromPause ==
    lastOp = "resume" /\ elements > 0 /\ snap.state = "resumed"
\* The length of that pause.
PauseLength == now - snap.t

\* C1: between two target computations on.finish is invoked at most once,
\* whatever ticks, pause(), resume() and stop() calls happen in between.
C1_FinishAtMostOnce ==
    [][ (finishFired /\ lastOp' \notin Recomputes)
            => EventsOf(events', "finish") = << >> ]_vars

\* C2: once a processed tick has observed timeLeft <= 0, no tick is processed
\* (no sink written, no on.update) until restart() or update() is called.
C2_CompletionTerminal ==
    [][ (completed /\ lastOp' \notin Recomputes) => ~Processed(events') ]_vars

\* C3: for a running relative timer with disableOnPause and timeLeft > 0,
\* pause() then resume() leaves targetTimestamp - now and now - startTimestamp
\* as they were at the pause, and the tick of resume() reports the timeLeft
\* of the moment of the pause, whatever the length of the pause.
C3_PauseFreezeRoundTrip ==
    (ResumedFromPause /\ ~snap.repeated /\ FreezeConfigured
        /\ snap.running /\ snap.timeLeft > 0)
    => /\ targetTimestamp - now = snap.target - snap.t
       /\ now - startTimestamp = snap.t - snap.start
       /\ Processed(events)
       /\ Reported(events).timeLeft = snap.timeLeft

C3_Witness ==
    /\ ResumedFromPause /\ ~snap.repeated /\ FreezeConfigured
    /\ snap.running /\ snap.timeLeft > 0
    /\ PauseLength > 0
    /\ Processed(events)

\* C4 as stated: without freeze, pause() then resume() after P milliseconds
\* leaves targetTimestamp and startTimestamp unchanged and the timeLeft
\* reported after the resume is the timeLeft at the pause minus P.
C4_NoFreezeMinusP ==
    (ResumedFromPause /\ ~snap.repeated /\ ~FreezeConfigured)
    => /\ targetTimestamp = snap.target
       /\ startTimestamp = snap.start
       /\ Processed(events)
       /\ Reported(events).timeLeft = snap.timeLeft - PauseLength

\* C4 amended: ... and the timeLeft reported after the resume is the timeLeft
\* at the pause minus P, or 0 when P exceeds it.
C4_NoFreezeClamped ==
    (ResumedFromPause /\ ~snap.repeated /\ ~FreezeConfigured)
    => /\ targetTimestamp = snap.target
       /\ startTimestamp = snap.start
       /\ Processed(events)
       /\ Reported(events).timeLeft = Max(0, snap.timeLeft - PauseLength)

C4_Witness ==
    /\ ResumedFromPause /\ ~snap.repeated /\ ~FreezeConfigured
    /\ options.timer.duration # 0
    /\ PauseLength > 0
    /\ snap.timeLeft > PauseLength
    /\ Reported(events).timeLeft = snap.timeLeft - PauseLength

\* C5: pause() at t1 on a running timer and again at t2 while still paused
\* has the effect of the pause() at t1 alone: with freeze configured, the
\* resume() that follows shifts targetTimestamp and startTimestamp by the
\* time since t1.
C5_PauseIdempotent ==
    (ResumedFromPause /\ snap.repeated /\ snap.running /\ FreezeConfigured)
    => /\ targetTimestamp = snap.target + PauseLength
       /\ startTimestamp = snap.start + PauseLength

\* C6: resume() on an instance that is not paused changes no property of the
\* instance and no scheduler registration, processes no tick and invokes no
\* callback.
C6_ResumeNotPausedNoop ==
    [][ (lastOp' = "resume" /\ ~Paused(self))
            => /\ UNCHANGED <<instance, live, display>>
               /\ events' = << >> ]_vars

C6_Witness ==
    /\ lastOp = "resume" /\ ~prePaused /\ elements > 0
    /\ intervalId # 0 /\ events = << >>

\* C7: when a processed tick observes timeLeft <= 0, fired by the scheduler
\* or run by start(), then after the operation the instance holds no
\* scheduler registration and isPaused is true.
C7_CompletionReleases ==
    (Processed(events) /\ Reported(events).timeLeft <= 0)
    => (intervalId = 0 /\ isPaused)

\* C8: for a fixed target the progress.total of successive processed ticks is
\* non-decreasing and within [0,1], whatever pause(), resume() and stop()
\* calls happen between the ticks.
C8_TotalMonotone ==
    [][ (Processed(events') /\ lastOp' \notin Recomputes)
            => /\ InUnit(Reported(events').progress.total)
               /\ lastTotal # << >>
                    => RatioLeq(lastTotal[1], Reported(events').progress.total) ]_vars

\* C9: totalDuration >= 0 in every reachable state.
C9_TotalDurationNonNegative ==
    "totalDuration" \notin unset => totalDuration >= 0

\* C10: on every processed tick each field of the progress object lies in
\* [0,1].
C10_ProgressInUnit ==
    Processed(events)
    => LET progress == Reported(events).progress
       IN  /\ InUnit(progress.total)
           /\ InUnit(progress.days)
           /\ InUnit(progress.hours)
           /\ InUnit(progress.minutes)
           /\ InUnit(progress.seconds)
\* A target computation has just run on an instance that has elements.
JustComputed == lastOp \in {"construct"} \cup Recomputes /\ elements > 0

\* C11: every target computation applies one rule, in the order relative
\* duration, date string, granular fields: a non-zero timer.duration gives
\* targetTimestamp = startTimestamp + duration and totalDuration = duration
\* whatever targetTime and the granular fields say; otherwise targetTime, if
\* set, gives the parsed string; otherwise the granular fields give the date.
C11_TargetPriority ==
    JustComputed
    => /\ startTimestamp = now
       /\ IF options.timer.duration # 0
          THEN /\ targetTimestamp = startTimestamp + options.timer.duration
               /\ totalDuration = options.timer.duration
          ELSE IF options.targetTime # ""
          THEN targetTimestamp = DateParse(options.targetTime)
          ELSE targetTimestamp = granularTarget(options)

\* update({timer: {duration: D}}) on an instance configured with a date.
C11_Witness ==
    /\ lastOp = "update" /\ elements > 0 /\ now > Epoch
    /\ options.timer.duration # 0
    /\ (options.targetTime # "" \/ options.day = 3)
    /\ targetTimestamp = now + options.timer.duration
    /\ targetTimestamp # DateParse("1970-01-02T13:31:30Z")
    /\ targetTimestamp # granularTarget(options)

\* C12: restart() and update(partial), from any prior state, start a fresh
\* timing window: startTimestamp is the clock at the call, targetTimestamp and
\* totalDuration are those of the merged configuration, and with the new
\* target in the future the instance is not paused, holds a registration and
\* its synchronous tick reports timeLeft = totalDuration and progress.total 0.
C12_FreshWindow ==
    (lastOp \in Recomputes /\ elements > 0)
    => /\ startTimestamp = now
       /\ targetTimestamp = calculateTarget(self, now).targetTimestamp
       /\ totalDuration = calculateTarget(self, now).totalDuration
       /\ targetTimestamp > now
            => /\ ~isPaused
               /\ intervalId # 0 /\ intervalId \in live
               /\ Processed(events)
               /\ Reported(events).timeLeft = totalDuration
               /\ Reported(events).progress.total.num = 0

\* update() with a partial that changes no timing field, on a paused
\* instance, some time after the construction.
C12_Witness ==
    /\ lastOp = "update" /\ elements > 0 /\ now > Epoch /\ prePaused
    /\ options.timer.duration = ClockStep /\ ~options.zeroPad
    /\ targetTimestamp > now /\ ~isPaused
    /\ Processed(events)
\* C13: for every non-negative timeLeft the days, hours, minutes and seconds
\* of tick() satisfy days*86400000 + hours*3600000 + minutes*60000 +
\* seconds*1000 <= timeLeft < the same with seconds + 1, with
\* 0 <= hours < 24, 0 <= minutes < 60 and 0 <= seconds < 60.
C13_Decomposition ==
    \A i \in 1..Len(events) :
        LET timeLeft == events[i].timeLeft
            u == events[i].units
            whole == u.days * 86400000 + u.hours * 3600000
                        + u.minutes * 60000 + u.seconds * 1000
        IN  /\ timeLeft >= 0
            /\ whole <= timeLeft /\ timeLeft < whole + 1000
            /\ u.days >= 0
            /\ 0 <= u.hours /\ u.hours < 24
            /\ 0 <= u.minutes /\ u.minutes < 60
            /\ 0 <= u.seconds /\ u.seconds < 60

\* A scheduler tick with no unit 0 and a timeLeft off the whole second.
C13_Witness ==
    /\ lastOp = "tick" /\ Processed(events)
    /\ Reported(events).timeLeft % 1000 # 0
    /\ Reported(events).units.days > 0
    /\ Reported(events).units.hours > 0
    /\ Reported(events).units.minutes > 0
    /\ Reported(events).units.seconds > 0
\* C14: when the selector resolves to zero sinks, construction completes and
\* the instance still computes its target, holds a scheduler registration
\* that ticks it, and invokes on.update on each processed tick and on.finish
\* at completion.
C14_InertStillCounts ==
    elements = 0 =>
        /\ ~threw
        /\ {"options", "targetTimestamp", "startTimestamp",
            "totalDuration", "intervalId", "isPaused"} \cap unset = {}
        /\ lastOp = "construct" =>
               /\ Recomputed(events)
               /\ intervalId # 0 /\ intervalId \in live
               /\ options.on.update # NULL => EventsOf(events, "update") # << >>
        /\ (lastOp = "tick" /\ ~prePaused /\ ~completed) =>
               /\ options.on.update # NULL => EventsOf(events, "update") # << >>

\* C15: on an instance whose construction resolved zero sinks, every public
\* method (pause(), resume(), stop(), restart(), update(partial)), called in
\* any order, returns normally instead of raising to the caller.
C15_InertNeverThrows ==
    (elements = 0
        /\ lastOp \in {"pause", "resume", "stop", "restart", "update"})
    => ~threw
\* C16: while isPaused is true a tick fired by the scheduler changes no
\* runtime state (targetTimestamp, startTimestamp, totalDuration, pauseStart,
\* isPaused, intervalId), writes no sink and invokes neither on.update nor
\* on.finish; and pause() leaves the scheduler registration, targetTimestamp,
\* startTimestamp and totalDuration unchanged.
C16_PausedTickNoop ==
    [][ /\ (lastOp' = "tick" /\ Paused(self)) =>
               /\ UNCHANGED <<instance, live, display>>
               /\ events' = << >>
               /\ ~threw'
        /\ lastOp' = "pause" =>
               UNCHANGED <<intervalId, live, targetTimestamp,
                           startTimestamp, totalDuration>> ]_vars

\* A tick delivered during a pause, the registration held and the target
\* still ahead.
C16_Witness ==
    /\ lastOp = "tick" /\ prePaused /\ elements > 0
    /\ snap.state = "paused" /\ now > snap.t
    /\ intervalId # 0 /\ intervalId \in live
    /\ targetTimestamp > now
    /\ events = << >>
\* C17: in every state observable from outside (after construction with at
\* least one sink, after each public method returns, and at each on.update
\* and on.finish invocation), if the instance holds no scheduler registration
\* (intervalId empty) then isPaused is true.
C17_UnregisteredIsPaused ==
    elements > 0 =>
        /\ lastOp \in {"construct", "pause", "resume", "stop", "restart", "update"}
               => (~HasInterval(self) => Paused(self))
        /\ \A i \in 1..Len(events) :
               events[i].ev \in {"update", "finish"}
                   => (~events[i].registered => events[i].isPaused)
\* C18: at every moment at most one interval registered by the instance is
\* live, and any live one is the one recorded in intervalId, after any
\* sequence of construction, pause(), resume(), stop(), restart() and
\* update(), including an on.finish or on.update callback that calls
\* restart() or stop(); stop() with no registration held is a no-op.
C18_ScopedRegistration ==
    /\ [](Cardinality(live) <= 1 /\ (live # {} => HasInterval(self) /\ live = {intervalId}))
    /\ [][ (lastOp' = "stop" /\ ~HasInterval(self)) =>
               /\ UNCHANGED <<instance, live, display>>
               /\ events' = << >>
               /\ ~threw' ]_vars

\* A tick whose on.finish called restart(): the registration released by the
\* finish branch was taken again, and it is the only live one.
C18_Witness ==
    /\ lastOp = "tick"
    /\ options.on.finish = FnRestart
    /\ EventsOf(events, "finish") # << >>
    /\ Recomputed(events)
    /\ HasInterval(self) /\ live = {intervalId}
\* C19: every invocation of on.finish is preceded, within the same tick, by
\* the on.update invocation of that tick (when on.update is configured),
\* which receives timeLeft = 0 and progress.total = 1; and on every processed
\* tick with timeLeft = 0 the reported progress.total is 1, after any
\* sequence of pause(), resume(), stop(), restart() and update().
C19_FinishAfterFullUpdate ==
    \A i \in 1..Len(events) :
        /\ (events[i].ev \in {"render", "update"} /\ events[i].timeLeft = 0)
               => events[i].progress.total.num = events[i].progress.total.den
        /\ (events[i].ev = "finish" /\ options.on.update # NULL)
               => /\ i > 1
                  /\ events[i - 1].ev = "update"
                  /\ events[i - 1].timeLeft = 0
                  /\ events[i - 1].progress.total.num = events[i - 1].progress.total.den

\* The time ran out during a pause that does not freeze: the tick of resume()
\* reports timeLeft 0 to on.update and then calls on.finish.
C19_Witness ==
    /\ lastOp = "resume" /\ elements > 0
    /\ snap.state = "resumed" /\ snap.running /\ snap.timeLeft > 0
    /\ options.on.update # NULL
    /\ totalDuration > 0
    /\ EventsOf(events, "update") # << >>
    /\ EventsOf(events, "finish") # << >>
\* The instance is running: sinks resolved, not paused, registration held.
Running == elements > 0 /\ ~Paused(self) /\ HasInterval(self) /\ intervalId \in live

\* The last value the clock of the model takes.
MaxClock == Epoch + MaxSteps * ClockStep

\* pause(), stop(), restart() or update() was called.
Intervened == lastOp \in {"pause", "stop", "restart", "update"}

\* A tick has observed timeLeft <= 0, on.finish (when configured) was invoked
\* and the registration is released.
Finished ==
    /\ lastOp = "tick"
    /\ Processed(events) /\ Reported(events).timeLeft <= 0
    /\ options.on.finish # NULL => EventsOf(events, "finish") # << >>
    /\ ~HasInterval(self) /\ live = {}

\* C20: from any state in which the instance is running toward a finite
\* target, if the clock keeps advancing, the scheduler keeps delivering ticks
\* and no further pause(), stop(), restart() or update() is called, then
\* eventually a tick observes timeLeft <= 0, on.finish is invoked and the
\* scheduler registration is released.
C20_EventuallyFinishes ==
    (Running /\ targetTimestamp <= MaxClock) ~> (Finished \/ Intervened)

\* A scheduler tick of a running instance, after the clock has advanced, ran
\* the finish branch and called on.finish.
C20_Witness ==
    /\ Finished /\ elements > 0 /\ ~prePaused
    /\ now > Epoch /\ now >= targetTimestamp
    /\ options.on.finish # NULL
    /\ finishFired
====
